---- MODULE Spec2Model ----
(***************************************************************************)
(* Pathfinding visualizer: the five grid search algorithms (the TypeScript *)
(* ones of app/algorithms/algorithms.ts and the JavaScript ones of         *)
(* src/algorithms), the grid editor of app/components/Grid.tsx and the     *)
(* animation scheduler of app/routes/home.tsx.                             *)
(***************************************************************************)
EXTENDS Integers, Sequences, FiniteSets, TLC

VARIABLES run, ui, budget, util

vars == <<run, ui, budget, util>>

(***************************************************************************)
(* Bounds of the search model.                                             *)
(***************************************************************************)
Rows == 3
Cols == 4
MaxWalls == 2

(* IEEE +Infinity of createNode: larger than every finite cost of a grid.  *)
Infinity == 1000000

(* previousNode = null *)
Null == <<-1, -1>>

Cells == (0 .. Rows - 1) \X (0 .. Cols - 1)

AlgorithmNames == {"dfs", "bfs", "ucs", "greedy", "astar"}
HeuristicNames == {"manhattan", "euclidean", "diagonal"}
Impls == {"ts", "js"}

Abs(x) == IF x < 0 THEN -x ELSE x
Max(x, y) == IF x > y THEN x ELSE y
Min(x, y) == IF x < y THEN x ELSE y

(***************************************************************************)
(* Numbers of the form a + sqrt(r), a and r integers, r >= 0: the values   *)
(* that distance, gScore, fScore and the heuristics take.  The order is    *)
(* the exact order of the reals, which the doubles of the program keep at  *)
(* this size.                                                              *)
(***************************************************************************)
Num(a) == [a |-> a, r |-> 0]

AddInt(p, k) == [a |-> p.a + k, r |-> p.r]

(* p < q, i.e. p.a + sqrt(p.r) < q.a + sqrt(q.r) *)
LessThan(p, q) ==
    LET d == q.a - p.a
        m == p.r
        n == q.r
    IN  IF m = 0 /\ n = 0 THEN p.a < q.a
        ELSE IF d >= 0
        THEN LET L == m - n - d * d
             IN  IF L < 0 THEN TRUE
                 ELSE L * L < 4 * d * d * n
        ELSE LET R == n - m - d * d
             IN  IF R <= 0 THEN FALSE
                 ELSE 4 * d * d * m < R * R

(***************************************************************************)
(* Heuristics.                                                             *)
(***************************************************************************)
manhattanDistance(nodeA, nodeB) ==
    Num(Abs(nodeA[1] - nodeB[1]) + Abs(nodeA[2] - nodeB[2]))

euclideanDistance(nodeA, nodeB) ==
    LET dx == nodeA[1] - nodeB[1]
        dy == nodeA[2] - nodeB[2]
    IN  [a |-> 0, r |-> dx * dx + dy * dy]

diagonalDistance(nodeA, nodeB) ==
    Num(Max(Abs(nodeA[1] - nodeB[1]), Abs(nodeA[2] - nodeB[2])))

(* getHeuristicDistance with the square root of the euclidean case left out *)
getHeuristicDistance_noSqrt(nodeA, nodeB, heuristic) ==
    CASE heuristic = "manhattan" -> manhattanDistance(nodeA, nodeB)
      [] heuristic = "euclidean" ->
            Num((nodeA[1] - nodeB[1]) * (nodeA[1] - nodeB[1])
                + (nodeA[2] - nodeB[2]) * (nodeA[2] - nodeB[2]))
      [] heuristic = "diagonal" -> diagonalDistance(nodeA, nodeB)
      [] OTHER -> manhattanDistance(nodeA, nodeB)

(* algorithms.ts getHeuristicDistance *)
getHeuristicDistance(nodeA, nodeB, heuristic) ==
    CASE heuristic = "manhattan" -> manhattanDistance(nodeA, nodeB)
      [] heuristic = "euclidean" -> euclideanDistance(nodeA, nodeB)
      [] heuristic = "diagonal" -> diagonalDistance(nodeA, nodeB)
      [] OTHER -> manhattanDistance(nodeA, nodeB)

(* astar.js / greedy.js getHeuristicFunction, applied *)
getHeuristicFunction(heuristicName, nodeA, nodeB) ==
    CASE heuristicName = "manhattan" -> manhattanDistance(nodeA, nodeB)
      [] heuristicName = "euclidean" -> euclideanDistance(nodeA, nodeB)
      [] heuristicName = "diagonal" -> diagonalDistance(nodeA, nodeB)
      [] OTHER -> manhattanDistance(nodeA, nodeB)

(***************************************************************************)
(* Grid helpers.                                                           *)
(***************************************************************************)
directions == << <<-1, 0>>, <<1, 0>>, <<0, -1>>, <<0, 1>> >>

InBounds(rows, cols, c) ==
    c[1] >= 0 /\ c[1] < rows /\ c[2] >= 0 /\ c[2] < cols

(* getNeighbors with the left direction forgotten *)
getNeighbors_noLeft(node, rows, cols) ==
    LET cand == << <<node[1] - 1, node[2]>>, <<node[1] + 1, node[2]>>,
                   <<node[1], node[2] + 1>> >>
        ok(c) == InBounds(rows, cols, c)
    IN  SelectSeq(cand, ok)

(* getNeighbors with right taken before left *)
getNeighbors_rightFirst(node, rows, cols) ==
    LET cand == << <<node[1] - 1, node[2]>>, <<node[1] + 1, node[2]>>,
                   <<node[1], node[2] + 1>>, <<node[1], node[2] - 1>> >>
        ok(c) == InBounds(rows, cols, c)
    IN  SelectSeq(cand, ok)

(* the in-bounds cells among up, down, left, right, in that order *)
getNeighbors(node, rows, cols) ==
    LET cand == [i \in 1 .. 4 |->
                    <<node[1] + directions[i][1], node[2] + directions[i][2]>>]
        ok(c) == InBounds(rows, cols, c)
    IN  SelectSeq(cand, ok)

RECURSIVE reconstructFrom(_, _, _)
reconstructFrom(previousNode, currentNode, fuel) ==
    IF currentNode = Null THEN <<>>
    ELSE IF fuel = 0 THEN << Null >>
    ELSE Append(reconstructFrom(previousNode, previousNode[currentNode], fuel - 1),
                currentNode)

(* reconstructPath stopping at the cell whose previousNode is null, which   *)
(* it leaves out                                                           *)
reconstructPath_dropStart(s, endNode) ==
    LET full == reconstructFrom(s.previousNode, endNode,
                                Cardinality(DOMAIN s.previousNode))
    IN  IF full = <<>> THEN <<>> ELSE Tail(full)

(* walks previousNode from the end node back to null, prepending each cell *)
reconstructPath(s, endNode) ==
    reconstructFrom(s.previousNode, endNode, Cardinality(DOMAIN s.previousNode))

Contains(seq, x) == \E i \in 1 .. Len(seq) : seq[i] = x

(* Insert x before the first element whose key is strictly greater: the    *)
(* place a stable ascending sort gives it, and PriorityQueue.enqueue's.     *)
RECURSIVE InsertByKey(_, _, _)
InsertByKey(sorted, x, key) ==
    IF sorted = <<>> THEN <<x>>
    ELSE IF LessThan(key[x], key[Head(sorted)])
         THEN <<x>> \o sorted
         ELSE <<Head(sorted)>> \o InsertByKey(Tail(sorted), x, key)

(* Array.prototype.sort((a, b) => key(a) - key(b)): stable, ascending *)
RECURSIVE SortPrefix(_, _, _)
SortPrefix(seq, i, key) ==
    IF i = 0 THEN <<>>
    ELSE InsertByKey(SortPrefix(seq, i - 1, key), seq[i], key)

StableSort(seq, key) == SortPrefix(seq, Len(seq), key)

(***************************************************************************)
(* The working state of one search run: the clean grid's cells (isWall,    *)
(* isVisited, previousNode, distance, gScore, fScore), the frontier and    *)
(* the outputs.  frontier is the stack / queue / unvisited / openSet array *)
(* of algorithms.ts, elements is PriorityQueue.elements of the .js files.  *)
(***************************************************************************)
CellsOf(rows, cols) == (0 .. rows - 1) \X (0 .. cols - 1)

(* resetGrid's cells: the search-result fields of a clean grid *)
CleanRun(impl, alg, heuristic, rows, cols, walls, startNode, endNode) ==
    [ impl |-> impl, alg |-> alg, heuristic |-> heuristic,
      rows |-> rows, cols |-> cols,
      isWall |-> walls, startNode |-> startNode, endNode |-> endNode,
      isVisited |-> {},
      previousNode |-> [c \in CellsOf(rows, cols) |-> Null],
      distance |-> [c \in CellsOf(rows, cols) |-> Infinity],
      gScore |-> [c \in CellsOf(rows, cols) |-> Infinity],
      fScore |-> [c \in CellsOf(rows, cols) |-> Num(Infinity)],
      frontier |-> <<>>, elements |-> <<>>,
      visitedNodesInOrder |-> <<>>, path |-> <<>>,
      pc |-> "start", found |-> FALSE ]

(* return { visitedNodesInOrder, path: reconstructPath(endNode) } *)
ReturnFound(s) ==
    [s EXCEPT !.pc = "done", !.found = TRUE, !.path = reconstructPath(s, s.endNode)]

(* return { visitedNodesInOrder, path: [] } *)
ReturnEmpty(s) ==
    [s EXCEPT !.pc = "done", !.found = FALSE, !.path = <<>>]

(* PriorityQueue.enqueue *)
RECURSIVE enqueueAt(_, _)
enqueueAt(elements, queueElement) ==
    IF elements = <<>> THEN <<queueElement>>
    ELSE IF LessThan(queueElement.priority, Head(elements).priority)
         THEN <<queueElement>> \o elements
         ELSE <<Head(elements)>> \o enqueueAt(Tail(elements), queueElement)

enqueue(elements, element, priority) ==
    enqueueAt(elements, [element |-> element, priority |-> priority])

(* ---- the bodies of the for-loops over the neighbors ---- *)

(* dfsNeighbor without the isVisited test *)
dfsNeighbor_noVisitedTest(s, currentNode, neighbor) ==
    IF neighbor \notin s.isWall
    THEN [s EXCEPT !.isVisited = @ \cup {neighbor},
                   !.previousNode[neighbor] = currentNode,
                   !.frontier = Append(@, neighbor)]
    ELSE s

(* dfs (algorithms.ts 32-38; the .js dfs is the same statement by statement) *)
dfsNeighbor(s, currentNode, neighbor) ==
    IF neighbor \notin s.isWall /\ neighbor \notin s.isVisited
    THEN [s EXCEPT !.isVisited = @ \cup {neighbor},
                   !.previousNode[neighbor] = currentNode,
                   !.frontier = Append(@, neighbor)]
    ELSE s

(* bfs (algorithms.ts 59-65); bfs.js also keeps distance = depth *)
bfsNeighbor(s, currentNode, neighbor) ==
    IF neighbor \notin s.isWall /\ neighbor \notin s.isVisited
    THEN [s EXCEPT !.isVisited = @ \cup {neighbor},
                   !.previousNode[neighbor] = currentNode,
                   !.distance[neighbor] =
                       IF s.impl = "js" THEN s.distance[currentNode] + 1 ELSE @,
                   !.frontier = Append(@, neighbor)]
    ELSE s

(* ucs of algorithms.ts 143-154 *)
ucsNeighbor(s, currentNode, neighbor) ==
    IF neighbor \notin s.isWall /\ neighbor \notin s.isVisited
    THEN LET newDistance == s.distance[currentNode] + 1
         IN  IF newDistance < s.distance[neighbor]
             THEN [s EXCEPT !.distance[neighbor] = newDistance,
                            !.previousNode[neighbor] = currentNode,
                            !.frontier = IF Contains(@, neighbor) THEN @
                                         ELSE Append(@, neighbor)]
             ELSE s
    ELSE s

(* greedy of algorithms.ts 190-199 *)
greedyNeighbor(s, currentNode, neighbor) ==
    IF /\ neighbor \notin s.isWall
       /\ neighbor \notin s.isVisited
       /\ ~Contains(s.frontier, neighbor)
    THEN [s EXCEPT !.previousNode[neighbor] = currentNode,
                   !.frontier = Append(@, neighbor)]
    ELSE s

(* astarNeighbor with fScore = h, the cost so far left out *)
astarNeighbor_noG(s, currentNode, neighbor) ==
    IF neighbor \in s.isWall \/ neighbor \in s.isVisited THEN s
    ELSE LET tentativeGScore == s.gScore[currentNode] + 1
         IN  IF tentativeGScore < s.gScore[neighbor]
             THEN [s EXCEPT !.previousNode[neighbor] = currentNode,
                            !.gScore[neighbor] = tentativeGScore,
                            !.fScore[neighbor] =
                                getHeuristicDistance(neighbor, s.endNode,
                                                     s.heuristic),
                            !.frontier = IF Contains(@, neighbor) THEN @
                                         ELSE Append(@, neighbor)]
             ELSE s

(* astar of algorithms.ts 241-256 *)
astarNeighbor(s, currentNode, neighbor) ==
    IF neighbor \in s.isWall \/ neighbor \in s.isVisited THEN s
    ELSE LET tentativeGScore == s.gScore[currentNode] + 1
         IN  IF tentativeGScore < s.gScore[neighbor]
             THEN [s EXCEPT !.previousNode[neighbor] = currentNode,
                            !.gScore[neighbor] = tentativeGScore,
                            !.fScore[neighbor] =
                                AddInt(getHeuristicDistance(neighbor, s.endNode,
                                                            s.heuristic),
                                       tentativeGScore),
                            !.frontier = IF Contains(@, neighbor) THEN @
                                         ELSE Append(@, neighbor)]
             ELSE s

(* ucs of bfs.js 189-211 *)
ucsJsNeighbor(s, currentNode, neighbor) ==
    IF neighbor \in s.isWall THEN s
    ELSE IF neighbor \in s.isVisited THEN s
    ELSE LET newCost == s.distance[currentNode] + 1
         IN  IF newCost < s.distance[neighbor]
             THEN [s EXCEPT !.distance[neighbor] = newCost,
                            !.previousNode[neighbor] = currentNode,
                            !.elements = enqueue(@, neighbor, Num(newCost))]
             ELSE s

(* greedy of greedy.js 118-134 *)
greedyJsNeighbor(s, currentNode, neighbor) ==
    IF neighbor \in s.isWall THEN s
    ELSE IF neighbor \in s.isVisited THEN s
    ELSE [s EXCEPT !.previousNode[neighbor] = currentNode,
                   !.elements = enqueue(@, neighbor,
                                        getHeuristicFunction(s.heuristic, neighbor,
                                                             s.endNode))]

(* astar of astar.js 119-150 *)
astarJsNeighbor(s, currentNode, neighbor) ==
    IF neighbor \in s.isWall THEN s
    ELSE IF neighbor \in s.isVisited THEN s
    ELSE LET tentativeGScore == s.gScore[currentNode] + 1
             fScore == AddInt(getHeuristicFunction(s.heuristic, neighbor, s.endNode),
                              tentativeGScore)
         IN  IF tentativeGScore < s.gScore[neighbor]
             THEN [s EXCEPT !.previousNode[neighbor] = currentNode,
                            !.gScore[neighbor] = tentativeGScore,
                            !.fScore[neighbor] = fScore,
                            !.elements = enqueue(@, neighbor, fScore)]
             ELSE s

NeighborBody(s, currentNode, neighbor) ==
    CASE s.alg = "dfs" -> dfsNeighbor(s, currentNode, neighbor)
      [] s.alg = "bfs" -> bfsNeighbor(s, currentNode, neighbor)
      [] s.alg = "ucs" /\ s.impl = "ts" -> ucsNeighbor(s, currentNode, neighbor)
      [] s.alg = "greedy" /\ s.impl = "ts" -> greedyNeighbor(s, currentNode, neighbor)
      [] s.alg = "astar" /\ s.impl = "ts" -> astarNeighbor(s, currentNode, neighbor)
      [] s.alg = "ucs" /\ s.impl = "js" -> ucsJsNeighbor(s, currentNode, neighbor)
      [] s.alg = "greedy" /\ s.impl = "js" -> greedyJsNeighbor(s, currentNode, neighbor)
      [] s.alg = "astar" /\ s.impl = "js" -> astarJsNeighbor(s, currentNode, neighbor)

(* for (const neighbor of getNeighbors(currentNode, grid)) { ... } *)
RECURSIVE forNeighbors(_, _, _, _)
forNeighbors(s, currentNode, neighbors, i) ==
    IF i > Len(neighbors) THEN s
    ELSE forNeighbors(NeighborBody(s, currentNode, neighbors[i]),
                      currentNode, neighbors, i + 1)

expand(s, currentNode) ==
    forNeighbors(s, currentNode, getNeighbors(currentNode, s.rows, s.cols), 1)

(* ---- the statements before the while loop ---- *)

(* dfs: stack = [startNode]; startNode.isVisited = true *)
dfsBegin(s) ==
    [s EXCEPT !.frontier = <<s.startNode>>,
              !.isVisited = @ \cup {s.startNode},
              !.pc = "loop"]

(* bfs: queue = [startNode]; startNode.isVisited = true (bfs.js: distance 0) *)
bfsBegin(s) ==
    [s EXCEPT !.frontier = <<s.startNode>>,
              !.isVisited = @ \cup {s.startNode},
              !.distance[s.startNode] = IF s.impl = "js" THEN 0 ELSE @,
              !.pc = "loop"]

(* ucs of algorithms.ts 114-125 *)
ucsBegin(s) ==
    [s EXCEPT !.distance = [c \in DOMAIN s.distance |->
                               IF c = s.startNode THEN 0 ELSE Infinity],
              !.frontier = <<s.startNode>>,
              !.pc = "loop"]

(* greedy of algorithms.ts 167-168 *)
greedyBegin(s) ==
    [s EXCEPT !.frontier = <<s.startNode>>, !.pc = "loop"]

(* astar of algorithms.ts 212-224 *)
astarBegin(s) ==
    [s EXCEPT !.gScore = [c \in DOMAIN s.gScore |->
                             IF c = s.startNode THEN 0 ELSE Infinity],
              !.fScore = [c \in DOMAIN s.fScore |->
                             IF c = s.startNode
                             THEN getHeuristicDistance(s.startNode, s.endNode,
                                                       s.heuristic)
                             ELSE Num(Infinity)],
              !.frontier = <<s.startNode>>,
              !.pc = "loop"]

(* ucs of bfs.js 153-162 *)
ucsJsBegin(s) ==
    [s EXCEPT !.distance[s.startNode] = 0,
              !.elements = enqueue(<<>>, s.startNode, Num(0)),
              !.pc = "loop"]

(* greedy of greedy.js 79-91 *)
greedyJsBegin(s) ==
    [s EXCEPT !.elements = enqueue(<<>>, s.startNode,
                                   getHeuristicFunction(s.heuristic, s.startNode,
                                                        s.endNode)),
              !.pc = "loop"]

(* astar of astar.js 79-92 *)
astarJsBegin(s) ==
    LET f == getHeuristicFunction(s.heuristic, s.startNode, s.endNode)
    IN  [s EXCEPT !.gScore[s.startNode] = 0,
                  !.fScore[s.startNode] = f,
                  !.elements = enqueue(<<>>, s.startNode, f),
                  !.pc = "loop"]

(* ---- one pass of the while loop (its test included) ---- *)

(* visitedNodesInOrder.push(currentNode) *)
pushVisited(s, currentNode) ==
    [s EXCEPT !.visitedNodesInOrder = Append(@, currentNode)]

(* currentNode.isVisited = true; visitedNodesInOrder.push(currentNode) *)
markVisited(s, currentNode) ==
    [s EXCEPT !.isVisited = @ \cup {currentNode},
              !.visitedNodesInOrder = Append(@, currentNode)]

(* dfs of algorithms.ts 23-39 *)
dfsIter(s) ==
    IF s.frontier = <<>> THEN ReturnEmpty(s)
    ELSE LET currentNode == s.frontier[Len(s.frontier)]
             s1 == pushVisited([s EXCEPT !.frontier =
                                    SubSeq(@, 1, Len(@) - 1)], currentNode)
         IN  IF currentNode = s.endNode THEN ReturnFound(s1)
             ELSE expand(s1, currentNode)

(* bfsIter taking the newest cell (pop) where bfs takes the oldest (shift) *)
bfsIter_pop(s) ==
    IF s.frontier = <<>> THEN ReturnEmpty(s)
    ELSE LET currentNode == s.frontier[Len(s.frontier)]
             s1 == pushVisited([s EXCEPT !.frontier =
                                    SubSeq(@, 1, Len(@) - 1)], currentNode)
         IN  IF currentNode = s.endNode THEN ReturnFound(s1)
             ELSE expand(s1, currentNode)

(* bfs of algorithms.ts 50-66 *)
bfsIter(s) ==
    IF s.frontier = <<>> THEN ReturnEmpty(s)
    ELSE LET currentNode == Head(s.frontier)
             s1 == pushVisited([s EXCEPT !.frontier = Tail(@)], currentNode)
         IN  IF currentNode = s.endNode THEN ReturnFound(s1)
             ELSE expand(s1, currentNode)

(* ucsIter taking the last cell of the sorted array, the farthest one *)
ucsIter_farthest(s) ==
    IF s.frontier = <<>> THEN ReturnEmpty(s)
    ELSE LET sorted == StableSort(s.frontier,
                                  [c \in DOMAIN s.distance |-> Num(s.distance[c])])
             currentNode == sorted[Len(sorted)]
             s1 == [s EXCEPT !.frontier = SubSeq(sorted, 1, Len(sorted) - 1)]
         IN  IF currentNode \in s.isWall THEN s1
             ELSE IF currentNode = s.endNode THEN ReturnFound(s1)
             ELSE expand(markVisited(s1, currentNode), currentNode)

(* ucs of algorithms.ts 127-155 *)
ucsIter(s) ==
    IF s.frontier = <<>> THEN ReturnEmpty(s)
    ELSE LET sorted == StableSort(s.frontier,
                                  [c \in DOMAIN s.distance |-> Num(s.distance[c])])
             currentNode == Head(sorted)
             s1 == [s EXCEPT !.frontier = Tail(sorted)]
         IN  IF currentNode \in s.isWall THEN s1
             ELSE IF currentNode = s.endNode THEN ReturnFound(s1)
             ELSE expand(markVisited(s1, currentNode), currentNode)

(* greedy of algorithms.ts 170-200 *)
greedyIter(s) ==
    IF s.frontier = <<>> THEN ReturnEmpty(s)
    ELSE LET sorted == StableSort(s.frontier,
                           [c \in DOMAIN s.distance |->
                               getHeuristicDistance(c, s.endNode, s.heuristic)])
             currentNode == Head(sorted)
             s1 == [s EXCEPT !.frontier = Tail(sorted)]
         IN  IF currentNode \in s.isWall THEN s1
             ELSE LET s2 == markVisited(s1, currentNode)
                  IN  IF currentNode = s.endNode THEN ReturnFound(s2)
                      ELSE expand(s2, currentNode)

(* astar of algorithms.ts 226-257 *)
astarIter(s) ==
    IF s.frontier = <<>> THEN ReturnEmpty(s)
    ELSE LET sorted == StableSort(s.frontier, s.fScore)
             currentNode == Head(sorted)
             s1 == [s EXCEPT !.frontier = Tail(sorted)]
         IN  IF currentNode \in s.isWall THEN s1
             ELSE LET s2 == markVisited(s1, currentNode)
                  IN  IF currentNode = s.endNode THEN ReturnFound(s2)
                      ELSE expand(s2, currentNode)

(* the loops of bfs.js 165-212 (ucs), greedy.js 94-135, astar.js 95-151:   *)
(* they differ in the body of the neighbor loop only                        *)
pqIter(s) ==
    IF s.elements = <<>> THEN ReturnEmpty(s)
    ELSE LET currentNode == Head(s.elements).element
             s1 == [s EXCEPT !.elements = Tail(@)]
         IN  IF currentNode \in s.isVisited THEN s1
             ELSE LET s2 == markVisited(s1, currentNode)
                  IN  IF currentNode = s.endNode THEN ReturnFound(s2)
                      ELSE expand(s2, currentNode)

ucsJsIter(s) == pqIter(s)

greedyJsIter(s) == pqIter(s)

astarJsIter(s) == pqIter(s)

Begin(s) ==
    CASE s.alg = "dfs" -> dfsBegin(s)
      [] s.alg = "bfs" -> bfsBegin(s)
      [] s.alg = "ucs" /\ s.impl = "ts" -> ucsBegin(s)
      [] s.alg = "greedy" /\ s.impl = "ts" -> greedyBegin(s)
      [] s.alg = "astar" /\ s.impl = "ts" -> astarBegin(s)
      [] s.alg = "ucs" /\ s.impl = "js" -> ucsJsBegin(s)
      [] s.alg = "greedy" /\ s.impl = "js" -> greedyJsBegin(s)
      [] s.alg = "astar" /\ s.impl = "js" -> astarJsBegin(s)

Iter(s) ==
    CASE s.alg = "dfs" -> dfsIter(s)
      [] s.alg = "bfs" -> bfsIter(s)
      [] s.alg = "ucs" /\ s.impl = "ts" -> ucsIter(s)
      [] s.alg = "greedy" /\ s.impl = "ts" -> greedyIter(s)
      [] s.alg = "astar" /\ s.impl = "ts" -> astarIter(s)
      [] s.alg = "ucs" /\ s.impl = "js" -> ucsJsIter(s)
      [] s.alg = "greedy" /\ s.impl = "js" -> greedyJsIter(s)
      [] s.alg = "astar" /\ s.impl = "js" -> astarJsIter(s)

(* a whole call: the statements before the loop, then the loop to its return *)
RECURSIVE RunLoop(_)
RunLoop(s) == IF s.pc = "done" THEN s ELSE RunLoop(Iter(s))

Search(impl, alg, heuristic, rows, cols, walls, startNode, endNode) ==
    RunLoop(Begin(CleanRun(impl, alg, heuristic, rows, cols, walls,
                           startNode, endNode)))

(***************************************************************************)
(* validatePath of gridUtils.ts: stack-based flood fill from the start.    *)
(***************************************************************************)
(* floodPush without the isWall test *)
RECURSIVE floodPush_noWallTest(_, _, _, _)
floodPush_noWallTest(st, walls, neighbors, i) ==
    IF i > Len(neighbors) THEN st
    ELSE LET n == neighbors[i]
         IN  IF n \notin st.visited
             THEN floodPush_noWallTest([stack |-> Append(st.stack, n),
                                        visited |-> st.visited \cup {n}],
                                       walls, neighbors, i + 1)
             ELSE floodPush_noWallTest(st, walls, neighbors, i + 1)

RECURSIVE floodPush(_, _, _, _)
floodPush(st, walls, neighbors, i) ==
    IF i > Len(neighbors) THEN st
    ELSE LET n == neighbors[i]
         IN  IF n \notin walls /\ n \notin st.visited
             THEN floodPush([stack |-> Append(st.stack, n),
                             visited |-> st.visited \cup {n}],
                            walls, neighbors, i + 1)
             ELSE floodPush(st, walls, neighbors, i + 1)

RECURSIVE floodLoop(_, _, _, _, _)
floodLoop(st, walls, rows, cols, goalPos) ==
    IF st.stack = <<>> THEN FALSE
    ELSE LET current == st.stack[Len(st.stack)]
             popped == [st EXCEPT !.stack = SubSeq(@, 1, Len(@) - 1)]
         IN  IF current = goalPos THEN TRUE
             ELSE floodLoop(floodPush(popped, walls,
                                      getNeighbors(current, rows, cols), 1),
                            walls, rows, cols, goalPos)

validatePath(walls, rows, cols, startPos, goalPos) ==
    floodLoop([stack |-> <<startPos>>, visited |-> {startPos}],
              walls, rows, cols, goalPos)

(***************************************************************************)
(* The display grid of Home and Grid.  A grid is its size and, for each of *)
(* the boolean flags of NodeType, the set of cells where the flag is true. *)
(* The other fields of NodeType (distance, previousNode, gScore, fScore)   *)
(* are functions of the cell.                                              *)
(***************************************************************************)
GRID_ROWS == 7
GRID_COLS == 7
DEFAULT_START == <<1, 1>>
DEFAULT_GOAL == <<5, 5>>

createGrid(rows, cols) ==
    [ rows |-> rows, cols |-> cols,
      isStart |-> {}, isEnd |-> {}, isWall |-> {},
      isVisited |-> {}, isPath |-> {},
      distance |-> [c \in CellsOf(rows, cols) |-> Infinity],
      previousNode |-> [c \in CellsOf(rows, cols) |-> Null],
      gScore |-> [c \in CellsOf(rows, cols) |-> Infinity],
      fScore |-> [c \in CellsOf(rows, cols) |-> Num(Infinity)] ]

(* useState<NodeType[][]>([]) *)
NoGrid == createGrid(0, 0)

(* resetGrid without the reset of isVisited *)
resetGrid_keepVisited(grid) ==
    [grid EXCEPT
        !.isPath = {},
        !.distance = [c \in CellsOf(grid.rows, grid.cols) |-> Infinity],
        !.previousNode = [c \in CellsOf(grid.rows, grid.cols) |-> Null],
        !.gScore = [c \in CellsOf(grid.rows, grid.cols) |-> Infinity],
        !.fScore = [c \in CellsOf(grid.rows, grid.cols) |-> Num(Infinity)]]

(* resetGrid without the reset of distance *)
resetGrid_keepDistance(grid) ==
    [grid EXCEPT
        !.isVisited = {},
        !.isPath = {},
        !.previousNode = [c \in CellsOf(grid.rows, grid.cols) |-> Null],
        !.gScore = [c \in CellsOf(grid.rows, grid.cols) |-> Infinity],
        !.fScore = [c \in CellsOf(grid.rows, grid.cols) |-> Num(Infinity)]]

resetGrid(grid) ==
    [grid EXCEPT
        !.isVisited = {},
        !.isPath = {},
        !.distance = [c \in CellsOf(grid.rows, grid.cols) |-> Infinity],
        !.previousNode = [c \in CellsOf(grid.rows, grid.cols) |-> Null],
        !.gScore = [c \in CellsOf(grid.rows, grid.cols) |-> Infinity],
        !.fScore = [c \in CellsOf(grid.rows, grid.cols) |-> Num(Infinity)]]

(* the grid that a search was given, as the search leaves it: the         *)
(* algorithms write isVisited, distance, previousNode, gScore and fScore  *)
(* of the nodes they are passed                                           *)
searchedGrid(grid, s) ==
    [grid EXCEPT !.isVisited = s.isVisited,
                 !.distance = s.distance,
                 !.previousNode = s.previousNode,
                 !.gScore = s.gScore,
                 !.fScore = s.fScore]

clearObstacles(grid) == [grid EXCEPT !.isWall = {}]

(* Home.initializeGrid: createGrid(7, 7) with the two role flags *)
initializeGrid(startNode, goalNode) ==
    [createGrid(GRID_ROWS, GRID_COLS) EXCEPT !.isStart = {startNode},
                                             !.isEnd = {goalNode}]

(***************************************************************************)
(* SeededRandom.  The state is the integer seed; next() steps the state    *)
(* and returns (seed - 1) / 2147483646, kept here as its numerator.  The   *)
(* product seed * 16807 is below 2^53, so the doubles of the program hold  *)
(* it exactly; it is computed here by Schrage's decomposition so that no   *)
(* intermediate value leaves 32 bits.                                      *)
(***************************************************************************)
Modulus == 2147483647
Multiplier == 16807
Denominator == 2147483646

(* the % of JavaScript: the result has the sign of the dividend *)
JsRemainder(a, m) == IF a >= 0 THEN a % m ELSE -((-a) % m)

(* constructor(seed) *)
SeededRandom(seed) ==
    LET s == JsRemainder(seed, Modulus)
    IN  IF s <= 0 THEN s + Denominator ELSE s

(* this.seed = (this.seed * 16807) % 2147483647, for 0 <= seed < Modulus *)
nextSeed(seed) ==
    LET q == Modulus \div Multiplier
        r == Modulus % Multiplier
        t == Multiplier * (seed % q) - r * (seed \div q)
    IN  IF t < 0 THEN t + Modulus ELSE t

(* return (this.seed - 1) / 2147483646: the numerator *)
nextValue(seed) == seed - 1

(* randomValue < clampedDensity, the density in hundredths.  Two values of *)
(* next() differ by at least 1/2147483646, far more than the rounding of   *)
(* the division, so the doubles compare as the exact fractions do.         *)
clampedDensity(density) == Max(0, Min(100, density))

belowDensity(value, density) ==
    LET whole == density * (Denominator \div 100)
                 + (density * (Denominator % 100)) \div 100
        rest  == (density * (Denominator % 100)) % 100
    IN  value < whole + (IF rest > 0 THEN 1 ELSE 0)

(* Math.floor(random.next() * n): floor(value * n / 2147483646), by n      *)
(* additions modulo the denominator.                                       *)
RECURSIVE scaleFloor(_, _, _, _)
scaleFloor(value, n, whole, rest) ==
    IF n = 0 THEN whole
    ELSE IF rest >= Denominator - value
         THEN scaleFloor(value, n - 1, whole + 1, rest - (Denominator - value))
         ELSE scaleFloor(value, n - 1, whole, rest + value)

floorTimes(value, n) == scaleFloor(value, n, 0, 0)

(* the cell that the row-major double loop reaches at its k-th pass *)
CellAt(k, cols) == <<k \div cols, k % cols>>

(* generateRandomObstacles, lines 174-195: one pass per cell; st holds the *)
(* state of the generator and the walls placed so far                      *)
RECURSIVE placeObstacles(_, _, _, _, _, _, _)
placeObstacles(st, k, rows, cols, density, startPos, goalPos) ==
    IF k = rows * cols THEN st.walls
    ELSE LET c == CellAt(k, cols)
             s == nextSeed(st.seed)
         IN  IF c = startPos \/ c = goalPos
             THEN placeObstacles(st, k + 1, rows, cols, density,
                                 startPos, goalPos)
             ELSE IF belowDensity(nextValue(s), density)
             THEN placeObstacles([seed |-> s, walls |-> st.walls \cup {c}],
                                 k + 1, rows, cols, density, startPos, goalPos)
             ELSE placeObstacles([seed |-> s, walls |-> st.walls],
                                 k + 1, rows, cols, density, startPos, goalPos)

(* generateRandomObstacles without the loop of lines 168-172 *)
generateRandomObstacles_keepWalls(grid, density, seed, startPos, goalPos) ==
    [grid EXCEPT !.isWall =
        placeObstacles([seed |-> SeededRandom(seed), walls |-> grid.isWall],
                       0, grid.rows, grid.cols, clampedDensity(density),
                       startPos, goalPos)]

(* newGrid is the copy of lines 165-172, with every wall cleared *)
generateRandomObstacles(grid, density, seed, startPos, goalPos) ==
    LET newGrid == [grid EXCEPT !.isWall = {}]
    IN  [newGrid EXCEPT !.isWall =
            placeObstacles([seed |-> SeededRandom(seed),
                            walls |-> newGrid.isWall],
                           0, newGrid.rows, newGrid.cols,
                           clampedDensity(density), startPos, goalPos)]

(* generateMaze, lines 256-271: one pass per cell to open *)
RECURSIVE openCells(_, _, _, _, _, _)
openCells(st, i, rows, cols, startPos, goalPos) ==
    IF i = 0 THEN st.walls
    ELSE LET s1 == nextSeed(st.seed)
             s2 == nextSeed(s1)
             c == <<floorTimes(nextValue(s1), rows),
                    floorTimes(nextValue(s2), cols)>>
         IN  IF c = startPos \/ c = goalPos
             THEN openCells([seed |-> s2, walls |-> st.walls],
                            i - 1, rows, cols, startPos, goalPos)
             ELSE openCells([seed |-> s2, walls |-> st.walls \ {c}],
                            i - 1, rows, cols, startPos, goalPos)

generateMaze(grid, seed, startPos, goalPos) ==
    [grid EXCEPT !.isWall =
        openCells([seed |-> SeededRandom(seed),
                   walls |-> CellsOf(grid.rows, grid.cols)
                             \ {startPos, goalPos}],
                  (grid.rows * grid.cols * 3) \div 10,
                  grid.rows, grid.cols, startPos, goalPos)]

(* Grid.generateObstacles *)
generateObstacles(grid, mode, density, seed, startNode, goalNode) ==
    LET newGrid ==
          CASE mode = "random" ->
                 generateRandomObstacles(grid, density, seed,
                                         startNode, goalNode)
            [] mode = "maze" ->
                 generateMaze(grid, seed, startNode, goalNode)
            [] OTHER -> clearObstacles(grid)
    IN  [newGrid EXCEPT !.isStart = @ \cup {startNode},
                        !.isEnd = @ \cup {goalNode},
                        !.isWall = @ \ {startNode, goalNode}]

(***************************************************************************)
(* The state of Home (app/routes/home.tsx) and of its Grid child           *)
(* (app/components/Grid.tsx), after the mount effects have run.            *)
(*                                                                         *)
(* A callback made by useCallback keeps the values of the render in which  *)
(* it was made until one of its dependencies changes.  Two callbacks are   *)
(* called while they hold values older than the state:                     *)
(*   enterCap  handleMouseEnter (deps isSettingStart, isSettingGoal,       *)
(*             isInteractionDisabled) calls the moveStartNode and          *)
(*             moveGoalNode of its render, with that render's grid,        *)
(*             startNode and goalNode;                                     *)
(*   playCap   handlePlay (deps isPlaying, executeAlgorithm) calls the     *)
(*             animateStep of its render, with that render's visitedNodes, *)
(*             finalPath and isPaused.                                     *)
(* The rows of a grid are copied by toggleWall, the moves and the ticks,   *)
(* the node objects are not: a captured grid shares its nodes with the     *)
(* state's grid (shared = TRUE, the grid field is not read) until          *)
(* resetGrid, createGrid or a generator makes new nodes; from then on the  *)
(* captured grid keeps the flags it had (shared = FALSE).                  *)
(***************************************************************************)
ObstacleModes == {"manual", "random", "maze"}

(* the cells the pointer visits, the seeds, densities (in hundredths) and  *)
(* algorithms the controls are set to                                      *)
PointerCells == {DEFAULT_START, <<1, 2>>, DEFAULT_GOAL}
Seeds == {42, 7}
Densities == {30, 60}
AlgorithmChoices == {"dfs", "bfs", "astar"}
HeuristicChoices == {"manhattan", "euclidean"}

(* endTime - startTime of executeAlgorithm, in milliseconds: the clock may *)
(* or may not have advanced during the search                              *)
ElapsedTimes == {0, 1}
MaxEdits == 6
MaxHomeEdits == 2
MaxCommands == 3

(* the initial values of the state of Home, lines 23-53 *)
useState ==
         [ grid |-> NoGrid,
           startNode |-> DEFAULT_START,
           goalNode |-> DEFAULT_GOAL,
           obstacleMode |-> "manual",
           obstacleDensity |-> 30,
           obstacleSeed |-> 42,
           selectedAlgorithm |-> "dfs",
           selectedHeuristic |-> "manhattan",
           executionTime |-> 0,
           isPlaying |-> FALSE,
           isPaused |-> FALSE,
           currentStep |-> 0,
           visitedNodes |-> <<>>,
           finalPath |-> <<>>,
           isComplete |-> FALSE,
           isSettingStart |-> FALSE,
           isSettingGoal |-> FALSE,
           ticks |-> <<>>,
           animationTimer |-> FALSE,
           pathTimers |-> <<>>,
           enterCap |-> [ startNode |-> DEFAULT_START,
                          goalNode |-> DEFAULT_GOAL,
                          shared |-> FALSE, grid |-> NoGrid ],
           playCap |-> [ visitedNodes |-> <<>>, finalPath |-> <<>>,
                         isPaused |-> FALSE ] ]

(* Home before its mount effect has run *)
InitIdleUi == ui = useState

(* Home after the mount effect (lines 56-58) has run initializeGrid *)
InitUi ==
    ui = [useState EXCEPT
            !.grid = initializeGrid(DEFAULT_START, DEFAULT_GOAL)]

(* budget bounds the events of the user: those on the grid and on the     *)
(* obstacle controls (edits), those on the other controls (commands).  A  *)
(* timeout that fires is not an event of the user.                        *)
Edit ==
    /\ budget.edits > 0
    /\ budget' = [budget EXCEPT !.edits = @ - 1]
    /\ UNCHANGED <<run, util>>

Command ==
    /\ budget.commands > 0
    /\ budget' = [budget EXCEPT !.commands = @ - 1]
    /\ UNCHANGED <<run, util>>

Timer == UNCHANGED <<run, budget, util>>

(* isInteractionDisabled={isPlaying || isComplete} *)
isInteractionDisabled(u) == u.isPlaying \/ u.isComplete

(***************************************************************************)
(* The render that follows a handler.  new holds the state the handler     *)
(* set; nodes says what the handler did to the node objects of the grid:   *)
(* "same" (no setGrid), "rows" (rows copied, nodes written in place),      *)
(* "copy" (new nodes), "captured" (the nodes of enterCap became the        *)
(* grid).  Each callback is made again when a dependency changed.          *)
(***************************************************************************)
Render(old, new, nodes) ==
    LET enterDeps(u) == <<u.isSettingStart, u.isSettingGoal,
                          isInteractionDisabled(u)>>
        playDeps(u) == <<u.isPlaying, u.selectedAlgorithm>>
        cap == old.enterCap
    IN  [new EXCEPT
          !.enterCap =
              IF enterDeps(new) # enterDeps(old) \/ nodes = "captured"
              THEN [ startNode |->
                       IF enterDeps(new) # enterDeps(old)
                       THEN new.startNode ELSE cap.startNode,
                     goalNode |->
                       IF enterDeps(new) # enterDeps(old)
                       THEN new.goalNode ELSE cap.goalNode,
                     shared |-> TRUE, grid |-> NoGrid ]
              ELSE IF nodes = "copy" /\ cap.shared
                   THEN [cap EXCEPT !.shared = FALSE, !.grid = old.grid]
                   ELSE cap,
          !.playCap =
              IF playDeps(new) # playDeps(old) \/ nodes # "same"
              THEN [ visitedNodes |-> new.visitedNodes,
                     finalPath |-> new.finalPath,
                     isPaused |-> new.isPaused ]
              ELSE old.playCap ]

(***************************************************************************)
(* Grid.tsx: the mouse handlers.                                           *)
(***************************************************************************)
toggleWall(grid, c) ==
    IF c \notin grid.isStart /\ c \notin grid.isEnd
    THEN [grid EXCEPT !.isWall = IF c \in @ THEN @ \ {c} ELSE @ \cup {c}]
    ELSE grid

moveStartNode(grid, startNode, c) ==
    [grid EXCEPT !.isStart = (@ \ {startNode}) \cup {c},
                 !.isWall = @ \ {c},
                 !.isEnd = @ \ {c}]

moveGoalNode(grid, goalNode, c) ==
    [grid EXCEPT !.isEnd = (@ \ {goalNode}) \cup {c},
                 !.isWall = @ \ {c},
                 !.isStart = @ \ {c}]

handleMouseDown(c) ==
    /\ Edit
    /\ ~isInteractionDisabled(ui)
    /\ ui' = IF c \in ui.grid.isStart
             THEN Render(ui, [ui EXCEPT !.isSettingStart = TRUE], "same")
             ELSE IF c \in ui.grid.isEnd
             THEN Render(ui, [ui EXCEPT !.isSettingGoal = TRUE], "same")
             ELSE Render(ui, [ui EXCEPT !.grid = toggleWall(@, c)], "rows")

(* the grid that the moveStartNode and moveGoalNode of enterCap copy *)
capturedGrid(u) == IF u.enterCap.shared THEN u.grid ELSE u.enterCap.grid

handleMouseEnter(c) ==
    /\ Edit
    /\ ~isInteractionDisabled(ui)
    /\ ui.isSettingStart \/ ui.isSettingGoal
    /\ ui' = IF ui.isSettingStart
             THEN Render(ui,
                    [ui EXCEPT !.grid = moveStartNode(capturedGrid(ui),
                                           ui.enterCap.startNode, c),
                               !.startNode = c],
                    "captured")
             ELSE Render(ui,
                    [ui EXCEPT !.grid = moveGoalNode(capturedGrid(ui),
                                           ui.enterCap.goalNode, c),
                               !.goalNode = c],
                    "captured")

(* the grid has pointer-events: none while the interaction is disabled *)
handleMouseUp ==
    /\ Edit
    /\ ~isInteractionDisabled(ui)
    /\ ui.isSettingStart \/ ui.isSettingGoal
    /\ ui' = Render(ui, [ui EXCEPT !.isSettingStart = FALSE,
                                   !.isSettingGoal = FALSE], "same")

(***************************************************************************)
(* The obstacle controls: the setter of Home, then the effect of Grid      *)
(* (lines 80-84), which runs generateObstacles of the new render.          *)
(***************************************************************************)
obstacleEffect(new) ==
    IF new.obstacleMode # "manual"
    THEN Render(ui,
           [new EXCEPT !.grid =
               generateObstacles(new.grid, new.obstacleMode,
                                 new.obstacleDensity, new.obstacleSeed,
                                 new.startNode, new.goalNode)],
           "copy")
    ELSE Render(ui, new, "same")

onObstacleModeChange(mode) ==
    /\ Edit
    /\ mode # ui.obstacleMode
    /\ ui' = obstacleEffect([ui EXCEPT !.obstacleMode = mode])

onObstacleDensityChange(density) ==
    /\ Edit
    /\ density # ui.obstacleDensity
    /\ ui' = obstacleEffect([ui EXCEPT !.obstacleDensity = density])

onObstacleSeedChange(seed) ==
    /\ Edit
    /\ seed # ui.obstacleSeed
    /\ ui' = obstacleEffect([ui EXCEPT !.obstacleSeed = seed])

(***************************************************************************)
(* home.tsx: the animation scheduler.  ticks holds the closures of the     *)
(* pending timeouts of animateStep, oldest first; animationTimer says that *)
(* the timeout animationTimer.current names is still pending (it is then   *)
(* the last of ticks); pathTimers holds the finalPath of each pending      *)
(* timeout of showFinalPath.                                               *)
(***************************************************************************)
RemoveAt(seq, i) == SubSeq(seq, 1, i - 1) \o SubSeq(seq, i + 1, Len(seq))

(* getAlgorithmFunction: only dfs and bfs are dispatched *)
getAlgorithmFunction(selectedAlgorithm) ==
    CASE selectedAlgorithm = "dfs" -> "dfs"
      [] selectedAlgorithm = "bfs" -> "bfs"
      [] OTHER -> "dfs"

(* a node of the clean grid, as the closures of the animation read it *)
NodeOf(grid, c) ==
    [pos |-> c, isStart |-> c \in grid.isStart, isEnd |-> c \in grid.isEnd]

(* the cells that the loop of animateStep (lines 161-166) marks *)
marked(visitedNodes, n) ==
    {visitedNodes[i].pos : i \in {j \in 1 .. Min(n, Len(visitedNodes)) :
                                    /\ ~visitedNodes[j].isStart
                                    /\ ~visitedNodes[j].isEnd}}

(* clearAnimationTimer that forgets the handle and leaves the timeout armed *)
clearAnimationTimer_keepTimeout(u) == [u EXCEPT !.animationTimer = FALSE]

(* clearTimeout(animationTimer.current) *)
clearAnimationTimer(u) ==
    IF u.animationTimer
    THEN [u EXCEPT !.ticks = SubSeq(@, 1, Len(@) - 1),
                   !.animationTimer = FALSE]
    ELSE u

(* animateStep(): setTimeout, kept in animationTimer.current *)
animateStep(u, cap) ==
    [u EXCEPT !.ticks = Append(@, cap), !.animationTimer = TRUE]

(* executeAlgorithm, then the rest of handlePlay *)
handlePlay ==
    /\ Command
    /\ ~ui.isPlaying
    /\ LET result == Search("ts", getAlgorithmFunction(ui.selectedAlgorithm),
                            "manhattan", ui.grid.rows, ui.grid.cols,
                            ui.grid.isWall, ui.startNode, ui.goalNode)
           executed ==
              [ui EXCEPT
                 !.visitedNodes =
                     [i \in 1 .. Len(result.visitedNodesInOrder) |->
                         NodeOf(ui.grid, result.visitedNodesInOrder[i])],
                 !.finalPath = result.path,
                 !.grid = resetGrid(searchedGrid(resetGrid(ui.grid), result))]
           played ==
              IF Len(result.visitedNodesInOrder) > 0
              THEN Render(ui,
                     animateStep([executed EXCEPT !.isPlaying = TRUE,
                                                  !.isPaused = FALSE,
                                                  !.currentStep = 0,
                                                  !.isComplete = FALSE],
                                 ui.playCap),
                     "copy")
              ELSE Render(ui, executed, "copy")
       IN  \E elapsed \in ElapsedTimes :
              ui' = [played EXCEPT !.executionTime = elapsed]

(* the timeout of animateStep fires: lines 152-191 *)
tick(i) ==
    LET cap == ui.ticks[i]
        nextStep == ui.currentStep + 1
        fired == [ui EXCEPT
                    !.ticks = RemoveAt(@, i),
                    !.animationTimer = @ /\ i # Len(ui.ticks),
                    !.currentStep = nextStep,
                    !.grid = IF nextStep <= Len(cap.visitedNodes)
                             THEN [@ EXCEPT !.isVisited =
                                      @ \cup marked(cap.visitedNodes, nextStep)]
                             ELSE @]
        nodes == IF nextStep <= Len(cap.visitedNodes) THEN "rows" ELSE "same"
    IN  /\ Timer
        /\ ui' = IF nextStep >= Len(cap.visitedNodes)
                 THEN Render(ui,
                        [fired EXCEPT !.isComplete = TRUE,
                                      !.isPlaying = FALSE,
                                      !.pathTimers =
                                          IF Len(cap.finalPath) > 0
                                          THEN Append(@, cap.finalPath)
                                          ELSE @],
                        nodes)
                 ELSE IF ~cap.isPaused
                      THEN Render(ui, animateStep(fired, cap), nodes)
                      ELSE Render(ui, fired, nodes)

Tick == \E i \in 1 .. Len(ui.ticks) : tick(i)

(* the timeout of line 179 fires: showFinalPath of the closure *)
showFinalPath(i) ==
    LET finalPath == ui.pathTimers[i]
        onPath == {finalPath[k] : k \in 1 .. Len(finalPath)}
    IN  /\ Timer
        /\ ui' = Render(ui,
                   [ui EXCEPT
                      !.pathTimers = RemoveAt(@, i),
                      !.grid = [@ EXCEPT !.isPath =
                                  @ \cup {c \in onPath :
                                            /\ c \notin ui.grid.isStart
                                            /\ c \notin ui.grid.isEnd}]],
                   "rows")

ShowFinalPath == \E i \in 1 .. Len(ui.pathTimers) : showFinalPath(i)

(* the Pause button is disabled unless isPlaying and not isPaused *)
handlePause ==
    /\ Command
    /\ ui.isPlaying /\ ~ui.isPaused
    /\ ui' = Render(ui, clearAnimationTimer([ui EXCEPT !.isPaused = TRUE]),
                    "same")

handleStepForward ==
    /\ Command
    /\ ui.currentStep < Len(ui.visitedNodes) /\ ~ui.isPlaying
    /\ LET node == ui.visitedNodes[ui.currentStep + 1]
       IN  ui' = Render(ui,
                   [ui EXCEPT
                      !.currentStep = @ + 1,
                      !.grid = IF ~node.isStart /\ ~node.isEnd
                               THEN [@ EXCEPT !.isVisited = @ \cup {node.pos}]
                               ELSE @],
                   "rows")

handleStepBackward ==
    /\ Command
    /\ ui.currentStep > 0 /\ ~ui.isPlaying
    /\ ui' = Render(ui,
               [ui EXCEPT
                  !.currentStep = @ - 1,
                  !.grid = [resetGrid(@) EXCEPT !.isVisited =
                               marked(ui.visitedNodes, ui.currentStep - 1)]],
               "copy")

handleReset ==
    /\ Command
    /\ ui' = Render(ui,
               clearAnimationTimer(
                 [ui EXCEPT !.isPlaying = FALSE,
                            !.isPaused = FALSE,
                            !.currentStep = 0,
                            !.isComplete = FALSE,
                            !.visitedNodes = <<>>,
                            !.finalPath = <<>>,
                            !.executionTime = 0,
                            !.grid = initializeGrid(ui.startNode,
                                                    ui.goalNode)]),
               "copy")

onAlgorithmChange(algorithm) ==
    /\ Command
    /\ algorithm # ui.selectedAlgorithm
    /\ ui' = Render(ui, [ui EXCEPT !.selectedAlgorithm = algorithm], "same")

(* onHeuristicChange={setSelectedHeuristic}: the selector is rendered for   *)
(* the informed algorithms only                                            *)
onHeuristicChange(heuristic) ==
    /\ Command
    /\ ui.selectedAlgorithm \in {"greedy", "astar"}
    /\ heuristic # ui.selectedHeuristic
    /\ ui' = Render(ui, [ui EXCEPT !.selectedHeuristic = heuristic], "same")

(***************************************************************************)
(* The application: the handlers of Grid and Home, in any order.           *)
(***************************************************************************)
InitIdleRun ==
    run = CleanRun("ts", "dfs", "manhattan", GRID_ROWS, GRID_COLS, {},
                   DEFAULT_START, DEFAULT_GOAL)

(* no function of gridUtils.ts has been called, no generator constructed *)
InitIdleUtil ==
    util = [ grid |-> NoGrid, input |-> NoGrid, call |-> <<>>,
             startPos |-> DEFAULT_START, goalPos |-> DEFAULT_GOAL,
             random |-> 0, value |-> 0, calls |-> 0 ]

MouseDown == \E c \in PointerCells : handleMouseDown(c)

MouseEnter == \E c \in PointerCells : handleMouseEnter(c)

MouseUp == handleMouseUp

ObstacleModeChange == \E mode \in ObstacleModes : onObstacleModeChange(mode)

ObstacleDensityChange ==
    \E density \in Densities : onObstacleDensityChange(density)

ObstacleSeedChange == \E seed \in Seeds : onObstacleSeedChange(seed)

Play == handlePlay

Pause == handlePause

StepForward == handleStepForward

StepBackward == handleStepBackward

Reset == handleReset

AlgorithmChange ==
    \E algorithm \in AlgorithmChoices : onAlgorithmChange(algorithm)

HeuristicChange ==
    \E heuristic \in HeuristicChoices : onHeuristicChange(heuristic)

NextGrid ==
    \/ MouseDown
    \/ MouseEnter
    \/ MouseUp
    \/ ObstacleModeChange
    \/ ObstacleDensityChange
    \/ ObstacleSeedChange

NextHome ==
    \/ MouseDown
    \/ MouseEnter
    \/ MouseUp
    \/ ObstacleModeChange
    \/ ObstacleDensityChange
    \/ ObstacleSeedChange
    \/ Play
    \/ Tick
    \/ ShowFinalPath
    \/ Pause
    \/ StepForward
    \/ StepBackward
    \/ Reset
    \/ AlgorithmChange
    \/ HeuristicChange

InitGrid ==
    /\ InitIdleRun
    /\ InitUi
    /\ InitIdleUtil
    /\ budget = [edits |-> MaxEdits, commands |-> 0]

InitHome ==
    /\ InitIdleRun
    /\ InitUi
    /\ InitIdleUtil
    /\ budget = [edits |-> MaxHomeEdits, commands |-> MaxCommands]

SpecGrid == InitGrid /\ [][NextGrid]_vars

SpecHome == InitHome /\ [][NextHome]_vars

(***************************************************************************)
(* The grid editor followed by a play: the grids that the editor can hand  *)
(* to executeAlgorithm.                                                    *)
(***************************************************************************)
MaxPlays == 1

NextGridPlay ==
    \/ NextGrid
    \/ Play

InitGridPlay ==
    /\ InitIdleRun
    /\ InitUi
    /\ InitIdleUtil
    /\ budget = [edits |-> MaxEdits, commands |-> MaxPlays]

SpecGridPlay == InitGridPlay /\ [][NextGridPlay]_vars

(***************************************************************************)
(* The grid editor, plays and the timeouts they arm, with no pause, step   *)
(* or reset.  A timeout that is armed fires: the event loop runs every     *)
(* timer that is due, so Tick and ShowFinalPath are weakly fair.           *)
(***************************************************************************)
MaxAnimationEdits == 3
MaxAnimationPlays == 2

NextAnimation ==
    \/ MouseDown
    \/ MouseEnter
    \/ MouseUp
    \/ ObstacleModeChange
    \/ ObstacleDensityChange
    \/ ObstacleSeedChange
    \/ Play
    \/ Tick
    \/ ShowFinalPath

InitAnimation ==
    /\ InitIdleRun
    /\ InitUi
    /\ InitIdleUtil
    /\ budget = [edits |-> MaxAnimationEdits, commands |-> MaxAnimationPlays]

SpecAnimation ==
    /\ InitAnimation
    /\ [][NextAnimation]_vars
    /\ WF_vars(Tick)
    /\ WF_vars(ShowFinalPath)

(***************************************************************************)
(* The search specification: a clean grid, a start and a goal that are in  *)
(* bounds and not walls, one of the algorithms; then the call, one pass of *)
(* its loop at a time.                                                     *)
(***************************************************************************)
RECURSIVE SubsetsUpTo(_, _)
SubsetsUpTo(S, k) ==
    IF k = 0 THEN {{}}
    ELSE LET smaller == SubsetsUpTo(S, k - 1)
         IN  smaller \cup {w \cup {c} : w \in smaller, c \in S}

WallSets(startNode, endNode) ==
    SubsetsUpTo(Cells \ {startNode, endNode}, MaxWalls)

UsesHeuristic(alg) == alg \in {"greedy", "astar"}

InitRun ==
    \E impl \in Impls, alg \in AlgorithmNames, heuristic \in HeuristicNames,
       startNode \in Cells, endNode \in Cells :
       /\ (~UsesHeuristic(alg) => heuristic = "manhattan")
       /\ \E walls \in WallSets(startNode, endNode) :
             run = CleanRun(impl, alg, heuristic, Rows, Cols, walls,
                            startNode, endNode)

BeginSearch ==
    /\ run.pc = "start"
    /\ run' = Begin(run)
    /\ UNCHANGED <<ui, budget, util>>

AtLoop(alg, impl) == run.pc = "loop" /\ run.alg = alg /\ run.impl = impl

DfsLoop ==
    /\ (AtLoop("dfs", "ts") \/ AtLoop("dfs", "js"))
    /\ run' = dfsIter(run)
    /\ UNCHANGED <<ui, budget, util>>

BfsLoop ==
    /\ (AtLoop("bfs", "ts") \/ AtLoop("bfs", "js"))
    /\ run' = bfsIter(run)
    /\ UNCHANGED <<ui, budget, util>>

UcsLoop ==
    /\ AtLoop("ucs", "ts")
    /\ run' = ucsIter(run)
    /\ UNCHANGED <<ui, budget, util>>

GreedyLoop ==
    /\ AtLoop("greedy", "ts")
    /\ run' = greedyIter(run)
    /\ UNCHANGED <<ui, budget, util>>

AstarLoop ==
    /\ AtLoop("astar", "ts")
    /\ run' = astarIter(run)
    /\ UNCHANGED <<ui, budget, util>>

UcsJsLoop ==
    /\ AtLoop("ucs", "js")
    /\ run' = ucsJsIter(run)
    /\ UNCHANGED <<ui, budget, util>>

GreedyJsLoop ==
    /\ AtLoop("greedy", "js")
    /\ run' = greedyJsIter(run)
    /\ UNCHANGED <<ui, budget, util>>

AstarJsLoop ==
    /\ AtLoop("astar", "js")
    /\ run' = astarJsIter(run)
    /\ UNCHANGED <<ui, budget, util>>

NextSearch ==
    \/ BeginSearch
    \/ DfsLoop
    \/ BfsLoop
    \/ UcsLoop
    \/ GreedyLoop
    \/ AstarLoop
    \/ UcsJsLoop
    \/ GreedyJsLoop
    \/ AstarJsLoop

InitSearch ==
    /\ InitRun
    /\ InitIdleUi
    /\ InitIdleUtil
    /\ budget = [edits |-> 0, commands |-> 0]

SpecSearch == InitSearch /\ [][NextSearch]_vars

(* a call runs to its return without suspension: WF_vars(NextSearch), with *)
(* ENABLED <<NextSearch>>_vars written as ~Done (a call that has not       *)
(* returned has a next statement, and every statement changes run)         *)
SpecSearchFair == SpecSearch /\ ([]<>(run.pc = "done") \/ []<><<NextSearch>>_vars)

(***************************************************************************)
(* The functions of gridUtils.ts on their own.  util.grid is the grid that *)
(* the caller holds, util.input the grid it passed to the last call (as it *)
(* is after the call: the functions copy every node, lines 107-117, 165,   *)
(* 206 and 233, and write to the copies only), util.call the name and the  *)
(* arguments of the last call.                                             *)
(***************************************************************************)
MaxCalls == 2

(* start and goal positions, seeds and densities (in hundredths) passed; *)
(* the cell that showFinalPath may have marked                           *)
UtilEndpoints == { << <<0, 0>>, <<2, 3>> >>, << <<1, 1>>, <<1, 2>> >> }
UtilSeeds == Seeds \cup {-7}
UtilDensities == Densities \cup {150}
UtilMarked == <<0, 1>>

Call(name, args, grid) ==
    /\ util.calls < MaxCalls
    /\ util' = [util EXCEPT !.input = util.grid,
                            !.grid = grid,
                            !.call = <<name>> \o args,
                            !.calls = @ + 1]
    /\ UNCHANGED <<run, ui, budget>>

ResetGridCall == Call("resetGrid", <<>>, resetGrid(util.grid))

ClearObstaclesCall == Call("clearObstacles", <<>>, clearObstacles(util.grid))

RandomObstaclesCall ==
    \E density \in UtilDensities, seed \in UtilSeeds :
       Call("generateRandomObstacles", <<density, seed>>,
            generateRandomObstacles(util.grid, density, seed,
                                    util.startPos, util.goalPos))

MazeCall ==
    \E seed \in UtilSeeds :
       Call("generateMaze", <<seed>>,
            generateMaze(util.grid, seed, util.startPos, util.goalPos))

(* a grid as resetGrid returns it, which the algorithms require *)
IsClean(grid) ==
    /\ grid.isVisited = {}
    /\ \A c \in CellsOf(grid.rows, grid.cols) :
          /\ grid.distance[c] = Infinity
          /\ grid.previousNode[c] = Null
          /\ grid.gScore[c] = Infinity
          /\ grid.fScore[c] = Num(Infinity)

(* algorithmFunction(cleanGrid, start, end) writes to the nodes of its grid *)
AlgorithmCall ==
    /\ IsClean(util.grid)
    /\ \E alg \in AlgorithmNames :
          Call(alg, <<>>,
               searchedGrid(util.grid,
                            Search("ts", alg, "manhattan", util.grid.rows,
                                   util.grid.cols, util.grid.isWall,
                                   util.startPos, util.goalPos)))

NextUtils ==
    \/ ResetGridCall
    \/ ClearObstaclesCall
    \/ RandomObstaclesCall
    \/ MazeCall
    \/ AlgorithmCall

InitUtils ==
    /\ InitIdleRun
    /\ InitIdleUi
    /\ budget = [edits |-> 0, commands |-> 0]
    /\ \E ends \in UtilEndpoints :
          \E walls \in WallSets(ends[1], ends[2]) :
          \E marks \in SUBSET ({UtilMarked} \ walls) :
             util = [ grid |-> [createGrid(Rows, Cols) EXCEPT
                                  !.isStart = {ends[1]},
                                  !.isEnd = {ends[2]},
                                  !.isWall = walls,
                                  !.isPath = marks],
                      input |-> NoGrid, call |-> <<>>,
                      startPos |-> ends[1], goalPos |-> ends[2],
                      random |-> 0, value |-> 0, calls |-> 0 ]

SpecUtils == InitUtils /\ [][NextUtils]_vars

(***************************************************************************)
(* SeededRandom on its own: util.call is the constructor call and its      *)
(* seed, util.random is this.seed, util.value the numerator of the last    *)
(* value that next() returned (over 2147483646), util.calls the number of  *)
(* calls of next().                                                        *)
(***************************************************************************)
MaxNexts == 8

RandomSeeds ==
    { -2147483647, -2147483646, -2147483645, -1073741824, -16807, -42, -1,
      0, 1, 7, 42, 16807, 1073741824, 2147483645, 2147483646, 2147483647 }

RandomNew ==
    /\ util.call = <<>>
    /\ \E seed \in RandomSeeds :
          util' = [util EXCEPT !.call = <<"SeededRandom", seed>>,
                              !.random = SeededRandom(seed)]
    /\ UNCHANGED <<run, ui, budget>>

RandomNext ==
    /\ util.call # <<>>
    /\ util.calls < MaxNexts
    /\ util' = [util EXCEPT !.random = nextSeed(util.random),
                            !.value = nextValue(nextSeed(util.random)),
                            !.calls = @ + 1]
    /\ UNCHANGED <<run, ui, budget>>

NextRandom ==
    \/ RandomNew
    \/ RandomNext

InitRandom ==
    /\ InitIdleRun
    /\ InitIdleUi
    /\ budget = [edits |-> 0, commands |-> 0]
    /\ InitIdleUtil

SpecRandom == InitRandom /\ [][NextRandom]_vars

(***************************************************************************)
(* Properties of the search algorithms.                                    *)
(***************************************************************************)
Done == run.pc = "done"

Range(seq) == {seq[i] : i \in 1 .. Len(seq)}

Manhattan(a, b) == Abs(a[1] - b[1]) + Abs(a[2] - b[2])

Adjacent(a, b) == Manhattan(a, b) = 1

(* the 4-connected component of non-wall cells that holds cell c *)
RECURSIVE Grow(_, _)
Grow(reached, free) ==
    LET more == {c \in free \ reached : \E d \in reached : Adjacent(c, d)}
    IN  IF more = {} THEN reached ELSE Grow(reached \cup more, free)

Component(c, walls, rows, cols) == Grow({c}, CellsOf(rows, cols) \ walls)

StartComponent == Component(run.startNode, run.isWall, run.rows, run.cols)

GoalReachable == run.endNode \in StartComponent

(* the result of another algorithm of the same implementation on this input *)
PathOf(alg, heuristic) ==
    Search(run.impl, alg, heuristic, run.rows, run.cols, run.isWall,
           run.startNode, run.endNode).path

HeuristicsOf(alg) == IF UsesHeuristic(alg) THEN HeuristicNames ELSE {"manhattan"}

(* C1: a non-empty returned path starts at the start, ends at the goal,    *)
(* moves between 4-adjacent cells and holds no wall cell.                  *)
C1_PathIsValid ==
    (Done /\ run.path # <<>>) =>
        /\ run.path[1] = run.startNode
        /\ run.path[Len(run.path)] = run.endNode
        /\ \A i \in 1 .. Len(run.path) - 1 : Adjacent(run.path[i], run.path[i + 1])
        /\ \A i \in 1 .. Len(run.path) : run.path[i] \notin run.isWall

C1_Witness ==
    /\ Done
    /\ run.isWall # {}
    /\ Len(run.path) > Manhattan(run.startNode, run.endNode) + 1

(* C2: on an obstacle-free grid with distinct start and goal, bfs, ucs and *)
(* astar return a path of |drow| + |dcol| + 1 cells.                       *)
C2_OpenGridShortest ==
    (Done /\ run.isWall = {} /\ run.startNode # run.endNode
          /\ run.alg \in {"bfs", "ucs", "astar"}) =>
        Len(run.path) = Manhattan(run.startNode, run.endNode) + 1

C2_Witness ==
    /\ Done
    /\ run.isWall = {}
    /\ run.alg = "astar"
    /\ run.heuristic = "euclidean"
    /\ Len(run.path) = Rows + Cols - 1

(* C3: with any walls, ucs and astar return a path as long as the one bfs  *)
(* returns, and an empty one exactly when bfs does.                        *)
C3_SameLengthAsBfs ==
    (Done /\ run.alg \in {"ucs", "astar"}) =>
        LET bfsPath == PathOf("bfs", "manhattan")
        IN  /\ Len(run.path) = Len(bfsPath)
            /\ (run.path = <<>>) <=> (bfsPath = <<>>)

C3_Witness ==
    /\ Done
    /\ run.alg = "astar"
    /\ run.isWall # {}
    /\ Len(run.path) > Manhattan(run.startNode, run.endNode) + 1
    /\ Len(run.path) = Len(PathOf("bfs", "manhattan"))

(* C4: when the goal is reachable, the goal is the last cell of the        *)
(* returned visitedNodesInOrder.                                           *)
C4_GoalIsLastVisited ==
    (Done /\ GoalReachable /\ run.startNode # run.endNode) =>
        /\ run.visitedNodesInOrder # <<>>
        /\ run.visitedNodesInOrder[Len(run.visitedNodesInOrder)] = run.endNode

(* C5: when the goal is not reachable the call returns an empty path and   *)
(* visitedNodesInOrder holds exactly the cells of the start's component.   *)
C5_UnreachableExploresComponent ==
    (Done /\ ~GoalReachable) =>
        /\ run.path = <<>>
        /\ Range(run.visitedNodesInOrder) = StartComponent

C5_Witness ==
    /\ Done
    /\ ~GoalReachable
    /\ Cardinality(StartComponent) >= 3
    /\ run.path = <<>>

(* C6: validatePath is true exactly when the algorithm returns a non-empty *)
(* path.                                                                   *)
C6_ValidatePathIffPath ==
    Done =>
        (validatePath(run.isWall, run.rows, run.cols, run.startNode, run.endNode)
            <=> run.path # <<>>)

C6_Witness ==
    /\ Done
    /\ run.isWall # {}
    /\ run.path = <<>>
    /\ ~validatePath(run.isWall, run.rows, run.cols, run.startNode, run.endNode)

SameLine(a, b) == a # b /\ (a[1] = b[1] \/ a[2] = b[2])

(* C7 as stated: on an all-open grid with start and goal in one row or one *)
(* column, all five algorithms return the same path.                       *)
C7_AllFiveSamePath ==
    (Done /\ run.isWall = {} /\ SameLine(run.startNode, run.endNode)) =>
        \A alg \in AlgorithmNames : \A h \in HeuristicsOf(alg) :
            PathOf(alg, h) = run.path

(* C7 amended: bfs, ucs, greedy and astar return the same path there.      *)
C7_FourSamePath ==
    (Done /\ run.isWall = {} /\ SameLine(run.startNode, run.endNode)
          /\ run.alg # "dfs") =>
        \A alg \in AlgorithmNames \ {"dfs"} : \A h \in HeuristicsOf(alg) :
            PathOf(alg, h) = run.path

C7_Witness ==
    /\ Done
    /\ run.isWall = {}
    /\ SameLine(run.startNode, run.endNode)
    /\ run.alg = "greedy"
    /\ Len(run.path) >= 3
    /\ PathOf("astar", "diagonal") = run.path

(***************************************************************************)
(* Properties of the grid editor and of the animation scheduler.           *)
(***************************************************************************)

(* C8: after initialization and after any sequence of mouse-down,          *)
(* mouse-enter, mouse-up and wall-toggle events, exactly one cell has      *)
(* isStart, exactly one has isEnd, and they are the cells at the recorded  *)
(* start and goal coordinates.                                             *)
C8_OneStartOneGoal ==
    /\ ui.grid.isStart = {ui.startNode}
    /\ ui.grid.isEnd = {ui.goalNode}

(* C9: after any sequence of wall toggles, start and goal moves and        *)
(* obstacle generations, the cell at the start coordinate and the cell at  *)
(* the goal coordinate are not walls.                                      *)
C9_StartGoalNotWalls ==
    /\ ui.startNode \notin ui.grid.isWall
    /\ ui.goalNode \notin ui.grid.isWall

(* C10: every tick that follows a play advances currentStep by one and     *)
(* leaves marked as visited the cells of the first currentStep nodes of    *)
(* the visitedNodesInOrder that this play produced (the nodes that the     *)
(* run saw as start or goal are never marked and are left out).            *)
C10_TickReplaysRun ==
    [][Tick => /\ ui'.currentStep = ui.currentStep + 1
               /\ marked(ui'.visitedNodes, ui'.currentStep)
                     \subseteq ui'.grid.isVisited]_vars

(* C11: the scheduler enters Complete (isComplete true, isPlaying false)   *)
(* only at the step where currentStep equals the length of the             *)
(* visitedNodesInOrder of the run being played, never at a smaller one.    *)
C11_CompleteOnlyAtEnd ==
    [][(~ui.isComplete /\ ui'.isComplete)
          => /\ ~ui'.isPlaying
             /\ ui'.currentStep = Len(ui'.visitedNodes)]_vars

(* C12: pause keeps currentStep and the display grid and leaves no tick    *)
(* scheduled; a paused animation can be played again, and that play        *)
(* returns to Running at the preserved currentStep.                        *)
C12_PauseIsResumable ==
    /\ [][Pause => /\ ui'.ticks = <<>>
                   /\ ui'.currentStep = ui.currentStep
                   /\ ui'.grid = ui.grid]_vars
    /\ []((ui.isPaused /\ budget.commands > 0) => ENABLED Play)
    /\ [][(ui.isPaused /\ Play)
             => /\ ui'.isPlaying /\ ~ui'.isPaused
                /\ ui'.currentStep = ui.currentStep]_vars

(* C13: reset yields Idle with currentStep 0, no visitedNodesInOrder, no   *)
(* path, execution time 0 and a grid with the start, goal and wall cells   *)
(* it had just before, without visited or path marks.                      *)
C13_ResetKeepsRoles ==
    [][Reset => /\ ~ui'.isPlaying /\ ~ui'.isPaused /\ ~ui'.isComplete
                /\ ui'.currentStep = 0
                /\ ui'.visitedNodes = <<>>
                /\ ui'.finalPath = <<>>
                /\ ui'.executionTime = 0
                /\ ui'.grid.isStart = ui.grid.isStart
                /\ ui'.grid.isEnd = ui.grid.isEnd
                /\ ui'.grid.isWall = ui.grid.isWall
                /\ ui'.grid.isVisited = {}
                /\ ui'.grid.isPath = {}]_vars

(* C14: between a reset and the next play (visitedNodes is empty exactly   *)
(* then, and before the first play, when no timeout is pending) no timeout *)
(* that fires changes currentStep or the visited and path marks.           *)
C14_NoStaleTimerAfterReset ==
    [][((Tick \/ ShowFinalPath) /\ ui.visitedNodes = <<>>)
          => /\ ui'.currentStep = ui.currentStep
             /\ ui'.grid.isVisited = ui.grid.isVisited
             /\ ui'.grid.isPath = ui.grid.isPath]_vars

(* C15: a change of the obstacle mode, density or seed while the           *)
(* scheduler is Running or Complete resets it to Idle: not playing, not    *)
(* complete, currentStep 0, no visitedNodesInOrder, no path, and no        *)
(* visited or path marks on the new grid.                                  *)
C15_ObstacleChangeResets ==
    [][((ObstacleModeChange \/ ObstacleDensityChange \/ ObstacleSeedChange)
          /\ (ui.isPlaying \/ ui.isComplete))
          => /\ ~ui'.isPlaying /\ ~ui'.isComplete
             /\ ui'.currentStep = 0
             /\ ui'.visitedNodes = <<>>
             /\ ui'.finalPath = <<>>
             /\ ui'.grid.isVisited = {}
             /\ ui'.grid.isPath = {}]_vars

(* C16: the result that a play stores is the output of the selected        *)
(* algorithm, with the selected heuristic, on the clean grid.              *)
C16_RunsSelectedAlgorithm ==
    [][Play =>
         LET result == Search("ts", ui.selectedAlgorithm,
                              ui.selectedHeuristic, ui.grid.rows,
                              ui.grid.cols, ui.grid.isWall,
                              ui.startNode, ui.goalNode)
         IN  /\ [i \in 1 .. Len(ui'.visitedNodes) |-> ui'.visitedNodes[i].pos]
                   = result.visitedNodesInOrder
             /\ ui'.finalPath = result.path]_vars

(***************************************************************************)
(* Properties of the functions of gridUtils.ts.                            *)
(***************************************************************************)

(* C17: the wall layout that generateRandomObstacles returns depends on    *)
(* the seed, the density, the grid dimensions, the start and the goal      *)
(* only (it is the layout returned for a grid without walls), generating   *)
(* again on the returned grid returns the same grid, and the grid passed   *)
(* is not modified.                                                        *)
C17_RandomObstaclesDeterministic ==
    [][RandomObstaclesCall =>
         LET density == util'.call[2]
             seed == util'.call[3]
             empty == createGrid(util.grid.rows, util.grid.cols)
         IN  /\ util'.grid.isWall =
                   generateRandomObstacles(empty, density, seed,
                                           util.startPos,
                                           util.goalPos).isWall
             /\ generateRandomObstacles(util'.grid, density, seed,
                                        util.startPos, util.goalPos)
                   = util'.grid
             /\ util'.input = util.grid]_vars

C17_Witness ==
    /\ util.calls > 0
    /\ util.call[1] = "generateRandomObstacles"
    /\ util.input.isWall \ util.grid.isWall # {}
    /\ util.grid.isWall \ util.input.isWall # {}

(* C18: for every integer seed the state of SeededRandom after the         *)
(* constructor and after every next() lies in 1..2147483646, and every     *)
(* next() returns a value v with 0 <= v < 1.                               *)
C18_StateInRange ==
    util.call # <<>> =>
        /\ util.random \in 1 .. Denominator
        /\ util.calls > 0 => (0 <= util.value /\ util.value < Denominator)

(* C19: the grid that generateMaze returns has a path from the start to    *)
(* the goal: validatePath is true of it.                                   *)
C19_MazeIsSolvable ==
    [][MazeCall => validatePath(util'.grid.isWall, util'.grid.rows,
                                util'.grid.cols, util.startPos,
                                util.goalPos)]_vars

(* C20: resetGrid returns a grid where every cell has isVisited and isPath *)
(* false, distance, gScore and fScore infinite and previousNode null, with *)
(* the rows, cols, isStart, isEnd and isWall of the grid passed, which is  *)
(* not modified; resetting the result returns the result.                  *)
C20_ResetGridClears ==
    [][ResetGridCall =>
         /\ util'.grid.isVisited = {}
         /\ util'.grid.isPath = {}
         /\ \A c \in CellsOf(util.grid.rows, util.grid.cols) :
               /\ util'.grid.distance[c] = Infinity
               /\ util'.grid.previousNode[c] = Null
               /\ util'.grid.gScore[c] = Infinity
               /\ util'.grid.fScore[c] = Num(Infinity)
         /\ util'.grid.rows = util.grid.rows
         /\ util'.grid.cols = util.grid.cols
         /\ util'.grid.isStart = util.grid.isStart
         /\ util'.grid.isEnd = util.grid.isEnd
         /\ util'.grid.isWall = util.grid.isWall
         /\ util'.input = util.grid
         /\ resetGrid(util'.grid) = util'.grid]_vars

(* a reset of a grid that carries a path mark and that a search has        *)
(* written to                                                              *)
C20_Witness ==
    /\ util.calls > 0
    /\ util.call[1] = "resetGrid"
    /\ util.input.isPath # {}
    /\ util.input.isVisited # {}
    /\ util.input.isWall # {}
    /\ util.grid.isStart # {} /\ util.grid.isEnd # {}
    /\ \E c \in CellsOf(util.input.rows, util.input.cols) :
          /\ util.input.previousNode[c] # Null
          /\ \/ util.input.distance[c] # Infinity
             \/ /\ util.input.gScore[c] # Infinity
                /\ util.input.fScore[c] # Num(Infinity)

(***************************************************************************)
(* Properties settled on the whole application and on single calls.        *)
(***************************************************************************)

(* C21: a play leaves on the display grid no cell whose isVisited,         *)
(* previousNode, distance, gScore or fScore the search wrote, keeps the    *)
(* start, goal and wall cells of the grid it was given, and the grid that  *)
(* the search starts from (resetGrid of the caller's grid) is clean too,   *)
(* whatever marks the caller's grid carried.                               *)
C21_PlayLeavesGridClean ==
    [][Play => /\ IsClean(ui'.grid)
               /\ IsClean(resetGrid(ui.grid))
               /\ ui'.grid.isStart = ui.grid.isStart
               /\ ui'.grid.isEnd = ui.grid.isEnd
               /\ ui'.grid.isWall = ui.grid.isWall]_vars

(* a second play, made while the marks of the first animation are on the   *)
(* grid: the state right after it                                          *)
C21_Witness ==
    /\ ui.isPlaying
    /\ ui.currentStep = 0
    /\ Len(ui.visitedNodes) > 1
    /\ ui.pathTimers # <<>>
    /\ IsClean(ui.grid)

(* the number of steps of a shortest 4-connected path between two cells    *)
(* that avoids the walls, Infinity when there is none                      *)
RECURSIVE StepsFrom(_, _, _, _)
StepsFrom(reached, free, target, d) ==
    IF target \in reached THEN d
    ELSE LET more == {c \in free \ reached : \E e \in reached : Adjacent(c, e)}
         IN  IF more = {} THEN Infinity
             ELSE StepsFrom(reached \cup more, free, target, d + 1)

Steps(a, b, walls, rows, cols) ==
    StepsFrom({a}, CellsOf(rows, cols) \ walls, b, 0)

(* the heuristic value that the run's implementation computes for a cell   *)
HeuristicToGoal(c) ==
    IF run.impl = "ts"
    THEN getHeuristicDistance(c, run.endNode, run.heuristic)
    ELSE getHeuristicFunction(run.heuristic, c, run.endNode)

(* C22: in a finished greedy or astar run, the heuristic value of every    *)
(* cell from which the goal can be reached is at most the number of steps  *)
(* of a shortest path from the cell to the goal around the walls; every    *)
(* fScore that astar wrote is at most the cost so far plus that number;    *)
(* with manhattan on a grid without walls the two are equal.               *)
C22_HeuristicAdmissible ==
    (Done /\ UsesHeuristic(run.alg)) =>
        \A c \in Component(run.endNode, run.isWall, run.rows, run.cols) :
           LET steps == Steps(c, run.endNode, run.isWall, run.rows, run.cols)
               h == HeuristicToGoal(c)
           IN  /\ ~LessThan(Num(steps), h)
               /\ (run.alg = "astar" /\ run.gScore[c] # Infinity)
                     => ~LessThan(Num(run.gScore[c] + steps), run.fScore[c])
               /\ (run.heuristic = "manhattan" /\ run.isWall = {})
                     => h = Num(steps)

(* a run with euclidean where a wall makes the way from some cell to the   *)
(* goal longer than its manhattan distance, and the heuristic is not an    *)
(* integer                                                                 *)
C22_Witness ==
    /\ Done
    /\ run.alg = "astar"
    /\ run.heuristic = "euclidean"
    /\ run.isWall # {}
    /\ \E c \in Component(run.endNode, run.isWall, run.rows, run.cols) :
          /\ Steps(c, run.endNode, run.isWall, run.rows, run.cols)
                > Manhattan(c, run.endNode)
          /\ HeuristicToGoal(c).r > 1
          /\ run.gScore[c] # Infinity

(* C23: at the end of a run, getNeighbors returns, for every cell of the   *)
(* grid, the cells of the grid that are one step away, each once, up       *)
(* before down before left before right: 2 at a corner, 3 on an edge, 4    *)
(* inside; wall cells among them are returned too; every previousNode the  *)
(* loop has written names a cell that has the written cell among its       *)
(* neighbors.                                                              *)
C23_NeighborsInOrder ==
    Done =>
        \A c \in CellsOf(run.rows, run.cols) :
           LET neighbors == getNeighbors(c, run.rows, run.cols)
               rank(n) == CASE n[1] < c[1] -> 1
                            [] n[1] > c[1] -> 2
                            [] n[2] < c[2] -> 3
                            [] OTHER -> 4
               onBorders == (IF c[1] = 0 THEN 1 ELSE 0)
                            + (IF c[1] = run.rows - 1 THEN 1 ELSE 0)
                            + (IF c[2] = 0 THEN 1 ELSE 0)
                            + (IF c[2] = run.cols - 1 THEN 1 ELSE 0)
           IN  /\ Range(neighbors)
                     = {n \in CellsOf(run.rows, run.cols) : Adjacent(c, n)}
               /\ Len(neighbors) = 4 - onBorders
               /\ \A i \in 1 .. Len(neighbors) - 1 :
                     rank(neighbors[i]) < rank(neighbors[i + 1])
               /\ run.previousNode[c] # Null
                     => c \in Range(getNeighbors(run.previousNode[c],
                                                 run.rows, run.cols))

(* the run has expanded an inside cell that has a wall among its four      *)
(* neighbors and has reached another cell from it                          *)
C23_Witness ==
    /\ Done
    /\ \E c \in Range(run.visitedNodesInOrder) :
          /\ Len(getNeighbors(c, run.rows, run.cols)) = 4
          /\ Range(getNeighbors(c, run.rows, run.cols)) \cap run.isWall # {}
          /\ \E n \in CellsOf(run.rows, run.cols) : run.previousNode[n] = c

(* C24: whenever results are present and the animation is paused or        *)
(* complete, a step forward (currentStep below the length) and a step      *)
(* backward (currentStep above 0) can be taken; each step taken moves      *)
(* currentStep by exactly one and leaves marked as visited exactly the     *)
(* cells of the first currentStep nodes of visitedNodesInOrder (the nodes  *)
(* the run saw as start or goal are never marked); no step is taken while  *)
(* the animation is running.                                               *)
C24_StepsMoveByOne ==
    /\ [][StepForward => /\ ~(ui.isPlaying /\ ~ui.isPaused)
                         /\ ui'.currentStep = ui.currentStep + 1
                         /\ ui'.grid.isVisited
                               = marked(ui'.visitedNodes, ui'.currentStep)]_vars
    /\ [][StepBackward => /\ ~(ui.isPlaying /\ ~ui.isPaused)
                          /\ ui'.currentStep = ui.currentStep - 1
                          /\ ui'.grid.isVisited
                                = marked(ui'.visitedNodes, ui'.currentStep)]_vars
    /\ []((/\ ui.isPaused \/ ui.isComplete
           /\ ui.currentStep < Len(ui.visitedNodes)
           /\ budget.commands > 0) => ENABLED StepForward)
    /\ []((/\ ui.isPaused \/ ui.isComplete
           /\ ui.currentStep > 0
           /\ ui.visitedNodes # <<>>
           /\ budget.commands > 0) => ENABLED StepBackward)

(* C25: no step of a run writes the previousNode of a cell that already    *)
(* has one, and no step sets isVisited on a cell that already has it: the  *)
(* number of cells that become visited in a step is the number of          *)
(* isVisited writes of the step (one per cell pushed in dfs and bfs, one   *)
(* per cell appended to visitedNodesInOrder in ucs, greedy and astar).     *)
C25_WriteOnce ==
    [][/\ \A c \in CellsOf(run.rows, run.cols) :
             run.previousNode[c] # Null
                => run'.previousNode[c] = run.previousNode[c]
       /\ run.isVisited \subseteq run'.isVisited
       /\ LET appended == Len(run'.visitedNodesInOrder)
                          - Len(run.visitedNodesInOrder)
              pushed == Len(run'.frontier) - Len(run.frontier) + appended
          IN  Cardinality(run'.isVisited) - Cardinality(run.isVisited)
                 = IF run.alg \in {"dfs", "bfs"} THEN pushed ELSE appended]_vars

(* C26: at every point of a run no cell is twice in visitedNodesInOrder,   *)
(* no wall cell is in it and it is not longer than rows x cols; the same   *)
(* holds of the visitedNodesInOrder that a play stores, for the grid the   *)
(* play was made on.                                                       *)
C26_VisitedOnceNoWalls ==
    /\ [](/\ \A i, j \in 1 .. Len(run.visitedNodesInOrder) :
                i # j => run.visitedNodesInOrder[i] # run.visitedNodesInOrder[j]
          /\ Range(run.visitedNodesInOrder) \cap run.isWall = {}
          /\ Len(run.visitedNodesInOrder) <= run.rows * run.cols)
    /\ [][Play =>
            /\ \A i, j \in 1 .. Len(ui'.visitedNodes) :
                  i # j => ui'.visitedNodes[i].pos # ui'.visitedNodes[j].pos
            /\ \A i \in 1 .. Len(ui'.visitedNodes) :
                  ui'.visitedNodes[i].pos \notin ui.grid.isWall
            /\ Len(ui'.visitedNodes) <= ui.grid.rows * ui.grid.cols]_vars

(* C27: at every moment at most one timeout of animateStep is pending, and *)
(* it is the one that animationTimer.current names; a play arms one only   *)
(* when none is pending, and a tick that fires leaves at most the one it   *)
(* armed.                                                                  *)
C27_OnePendingTick ==
    /\ [](/\ Len(ui.ticks) <= 1
          /\ ui.ticks # <<>> => ui.animationTimer)
    /\ [][Play => ui.ticks = <<>>]_vars
    /\ [][Tick => Len(ui'.ticks) <= 1]_vars

(* a tick of a second run is pending, armed by the tick before it, after   *)
(* the first run completed                                                 *)
C27_Witness ==
    /\ Len(ui.ticks) = 1
    /\ ui.isPlaying
    /\ ui.currentStep >= 2
    /\ ui.pathTimers # <<>>

(* what is left to do in a run: the entries of the frontier, and five for  *)
(* each cell not yet marked visited (a cell that becomes visited adds at   *)
(* most four entries)                                                      *)
Remaining(s) ==
    Len(s.frontier) + Len(s.elements)
       + 5 * (s.rows * s.cols - Cardinality(s.isVisited))

(* C28: every call returns; every pass of the loop that does not return    *)
(* leaves strictly less to do; at the return the previousNode chain of     *)
(* every cell is free of                                                   *)
(* cycles and, from a cell that has a previousNode, ends at the start; a   *)
(* returned path holds no cell twice.                                      *)
C28_Terminates ==
    /\ <>Done
    /\ [][(run.pc = "loop" /\ run'.pc = "loop")
             => Remaining(run') < Remaining(run)]_vars
    /\ [](Done =>
            /\ \A c \in CellsOf(run.rows, run.cols) :
                  LET chain == reconstructFrom(run.previousNode, c,
                                               run.rows * run.cols)
                  IN  /\ Null \notin Range(chain)
                      /\ run.previousNode[c] # Null => chain[1] = run.startNode
            /\ \A i, j \in 1 .. Len(run.path) :
                  i # j => run.path[i] # run.path[j])

(* greedy has returned a path that goes around a wall *)
C28_Witness ==
    /\ Done
    /\ run.alg = "greedy"
    /\ run.found
    /\ run.isWall # {}
    /\ Len(run.path) > Manhattan(run.startNode, run.endNode) + 1
    /\ Remaining(run) > 0

(* the cell that carries the role which a move takes away *)
MovedFrom(u) == IF u.isSettingStart THEN u.startNode ELSE u.goalNode

(* C29: a move of the start or of the goal to cell c leaves the wall flag  *)
(* of every cell but c as it was and clears that of c, leaves isStart and  *)
(* isEnd of every cell but c and the cell moved from as they were, and     *)
(* leaves every other field of every node as it was.                       *)
C29_MoveChangesTwoCells ==
    [][\A c \in PointerCells :
         handleMouseEnter(c) =>
           /\ ui'.grid.isWall = ui.grid.isWall \ {c}
           /\ \A d \in CellsOf(GRID_ROWS, GRID_COLS) \ {c, MovedFrom(ui)} :
                 /\ d \in ui'.grid.isStart <=> d \in ui.grid.isStart
                 /\ d \in ui'.grid.isEnd <=> d \in ui.grid.isEnd
           /\ [ui'.grid EXCEPT !.isStart = {}, !.isEnd = {}, !.isWall = {}]
                = [ui.grid EXCEPT !.isStart = {}, !.isEnd = {},
                                  !.isWall = {}]]_vars

(* the cells of the path of the run that are neither start nor goal *)
PathCells(u) ==
    {u.finalPath[k] : k \in 1 .. Len(u.finalPath)}
       \ (u.grid.isStart \cup u.grid.isEnd)

(* C30: a run that play has started, with N = Len(visitedNodes) cells, and *)
(* that is neither paused nor reset leads to Complete with currentStep = N *)
(* and, when the run has a path, to a display grid on which every path     *)
(* cell that is neither start nor goal has isPath.                         *)
C30_PlayedRunCompletes ==
    /\ [](ui.isPlaying =>
            <>(ui.isComplete /\ ui.currentStep = Len(ui.visitedNodes)))
    /\ []((ui.isPlaying /\ ui.finalPath # <<>>) =>
            <>(PathCells(ui) \subseteq ui.grid.isPath))
====
